---- MODULE Spec2Model ----
(***************************************************************************)
(* xau_once.py: the run-once EMA20/50 + RSI + MACD signal checker.         *)
(*                                                                         *)
(* Four specifications share the variables below.                          *)
(*   Spec      the whole run: start-up, main, run_for, fetch_df, send_tg,  *)
(*             on frames whose rows come in time order.                    *)
(*   SpecEval  generate_signal and last_bar_is_fresh on drawn inputs.      *)
(*   SpecPick  _flatten and _pick on drawn column labels.                  *)
(*   SpecRows  fetch_df's and run_for's handling of a frame's rows, on     *)
(*             rows in any order, duplicated or not.                       *)
(*                                                                         *)
(* Numbers: prices and indicator values are fixed-point, in hundredths     *)
(* (MACD_HIST_MIN 0.02 is 2, RSI_BUY_MIN 55.0 is 5500). Instants are in    *)
(* seconds; one bar is 300 s (INTERVAL = "5m").                            *)
(* Text: a string the code inspects (a column label) is a sequence of      *)
(* one-character strings, so that lower(), endswith() and `in` are         *)
(* computed and not assumed.                                               *)
(***************************************************************************)
EXTENDS Integers, Sequences, FiniteSets, TLC

VARIABLES
    \* ---- the run (Spec) ----
    instruments,  \* INSTRUMENTS: the list of candidate lists
    secrets,      \* whether TG_TOKEN and TG_CHAT are both set
    pc,           \* where the process is
    gi,           \* main: index of the group being evaluated
    ci,           \* fetch_df: index of the candidate being tried
    last_err,     \* fetch_df: last_err
    reqs,         \* fetch_df: the requests this call has made to the bar source
    failed,       \* fetch_df: the candidates this call has given up on, in order
    out,          \* run_for: the series fetch_df returned, until run_for ends
    run_sym,      \* run_for: sym
    side,         \* run_for: side
    age,          \* run_for: age of the latest bar when last_bar_is_fresh ran
    tg,           \* send_tg: what the post did
    stdout,       \* the lines printed so far
    sent,         \* the messages posted to the messaging channel so far
    results,      \* per group evaluated so far: how run_for ended
    exit_code,    \* the process's exit status
    \* ---- SpecEval ----
    prev, now,    \* the two augmented bars
    sig,          \* generate_signal's result
    last_time,    \* the latest bar's time
    now_utc,      \* the clock
    is_fresh,     \* last_bar_is_fresh's result
    epc,
    \* ---- SpecPick ----
    raw_columns,  \* df.columns as the source gives them (tuples when MultiIndex)
    picked,       \* per key: the index of the column _pick returns, 0 for KeyError
    ppc,
    \* ---- SpecRows ----
    frame_rows,   \* the rows of the frame the source answered with
    series,       \* the rows of the series fetch_df returns
    pair,         \* run_for: prev, now
    npc

runVars == <<instruments, secrets, pc, gi, ci, last_err, reqs, failed,
             out, run_sym, side, age, tg, stdout, sent, results, exit_code>>
evalVars == <<prev, now, sig, last_time, now_utc, is_fresh, epc>>
pickVars == <<raw_columns, picked, ppc>>
rowsVars == <<frame_rows, series, pair, npc>>
vars == <<runVars, evalVars, pickVars, rowsVars>>

None == "None"

(***************************************************************************)
(* Bounds of the model.                                                    *)
(***************************************************************************)
\* Groups in INSTRUMENTS.
MaxGroups == 2
\* Rows a source frame holds.
MaxRows == 4
\* Columns a drawn source frame holds (SpecPick).
MaxCols == 2
\* BARS, scaled down from 220: the cap of the returned series.
BARS == 3
\* Leading rows without a full indicator set, scaled down from SLOW_EMA - 1.
WarmUp == 1

(***************************************************************************)
(* CONFIG                                                                  *)
(***************************************************************************)
FRESH_WINDOW_MIN == 4
RSI_BUY_MIN == 5500
RSI_SELL_MAX == 4500
MACD_HIST_MIN == 2
BarSeconds == 300

(***************************************************************************)
(* Text.                                                                   *)
(***************************************************************************)
UpperChars == <<"A","B","C","D","E","F","G","H","I","J","K","L","M",
                "N","O","P","Q","R","S","T","U","V","W","X","Y","Z">>
LowerChars == <<"a","b","c","d","e","f","g","h","i","j","k","l","m",
                "n","o","p","q","r","s","t","u","v","w","x","y","z">>

\* str.lower() of one character.
LowerChar(c) ==
    IF \E i \in DOMAIN UpperChars : UpperChars[i] = c
    THEN LowerChars[CHOOSE i \in DOMAIN UpperChars : UpperChars[i] = c]
    ELSE c

\* str.lower()
Lower(s) == [i \in DOMAIN s |-> LowerChar(s[i])]

\* s.endswith(key)
EndsWith(s, key) ==
    /\ Len(s) >= Len(key)
    /\ SubSeq(s, Len(s) - Len(key) + 1, Len(s)) = key

\* key in s
Contains(s, key) ==
    \E i \in 1..(Len(s) - Len(key) + 1) : SubSeq(s, i, i + Len(key) - 1) = key

\* "_".join(parts)
RECURSIVE Join(_)
Join(parts) ==
    IF parts = <<>> THEN <<>>
    ELSE IF Len(parts) = 1 THEN parts[1]
    ELSE parts[1] \o <<"_">> \o Join(Tail(parts))

\* [x for x in t if x not in ("", None)]
RECURSIVE NonEmpty(_)
NonEmpty(t) ==
    IF t = <<>> THEN <<>>
    ELSE IF t[1] = <<>> THEN NonEmpty(Tail(t))
    ELSE <<t[1]>> \o NonEmpty(Tail(t))

\* _flatten: each column label, a tuple of levels, becomes one string.
_flatten(cols) == [i \in DOMAIN cols |-> Join(NonEmpty(cols[i]))]

\* The least index of a column satisfying P, 0 when there is none.
FirstIndex(cols, P(_)) ==
    IF \E i \in DOMAIN cols : P(cols[i])
    THEN CHOOSE i \in DOMAIN cols :
            P(cols[i]) /\ \A j \in 1..(i - 1) : ~P(cols[j])
    ELSE 0

\* _pick's three passes.
ExactMatch(cols, key) == FirstIndex(cols, LAMBDA c : Lower(c) = key)
SuffixMatch(cols, key) == FirstIndex(cols, LAMBDA c : EndsWith(Lower(c), key))
SubstringMatch(cols, key) == FirstIndex(cols, LAMBDA c : Contains(Lower(c), key))

\* _pick(df, key): the index of the column returned, 0 for KeyError.
_pick(cols, key) ==
    LET k == Lower(key) IN
    IF ExactMatch(cols, k) # 0 THEN ExactMatch(cols, k)
    ELSE IF SuffixMatch(cols, k) # 0 THEN SuffixMatch(cols, k)
    ELSE SubstringMatch(cols, k)

K_open == <<"o","p","e","n">>
K_high == <<"h","i","g","h">>
K_low == <<"l","o","w">>
K_close == <<"c","l","o","s","e">>
K_volume == <<"v","o","l","u","m","e">>

(***************************************************************************)
(* generate_signal and last_bar_is_fresh.                                  *)
(***************************************************************************)
cross_up(p, n) == p.ema_fast <= p.ema_slow /\ n.ema_fast > n.ema_slow

\* cross_dn with the current bar compared by <=.
cross_dn_tie(p, n) == p.ema_fast >= p.ema_slow /\ n.ema_fast <= n.ema_slow

cross_dn(p, n) == p.ema_fast >= p.ema_slow /\ n.ema_fast < n.ema_slow

\* buy_ok with the oscillator compared by >.
buy_ok_strict(n) ==
    /\ n.rsi > RSI_BUY_MIN
    /\ n.macd_hist >= MACD_HIST_MIN
    /\ n.macd > n.macd_signal

buy_ok(n) ==
    /\ n.rsi >= RSI_BUY_MIN
    /\ n.macd_hist >= MACD_HIST_MIN
    /\ n.macd > n.macd_signal

sell_ok(n) ==
    /\ n.rsi <= RSI_SELL_MAX
    /\ n.macd_hist <= -MACD_HIST_MIN
    /\ n.macd < n.macd_signal

generate_signal(p, n) ==
    IF cross_up(p, n) /\ buy_ok(n) THEN "BUY"
    ELSE IF cross_dn(p, n) /\ sell_ok(n) THEN "SELL"
    ELSE "WAIT"

\* (now_utc - last_time_utc).total_seconds()
AgeSeconds(clock, t) == clock - t

\* FreshAge with the age in whole minutes (// in place of /).
FreshAgeWholeMinutes(sec) == 0 <= sec \div 60 /\ sec \div 60 <= FRESH_WINDOW_MIN

\* 0.0 <= age_min <= FRESH_WINDOW_MIN with age_min = seconds / 60.0, a true
\* division: the comparison is made in seconds.
FreshAge(sec) == 0 <= sec /\ sec <= FRESH_WINDOW_MIN * 60

\* last_bar_is_fresh without the gate.
last_bar_always_fresh(clock, t) == TRUE

last_bar_is_fresh(clock, t) == FreshAge(AgeSeconds(clock, t))

(***************************************************************************)
(* Idle values: what a specification leaves the other parts' variables at. *)
(***************************************************************************)
RunIdle ==
    /\ instruments = <<>> /\ secrets = TRUE /\ pc = "idle" /\ gi = 0 /\ ci = 0
    /\ last_err = [cls |-> "None", msg |-> "None"] /\ reqs = <<>> /\ failed = <<>>
    /\ out = None /\ run_sym = None /\ side = None /\ age = None /\ tg = None
    /\ stdout = <<>> /\ sent = <<>> /\ results = <<>> /\ exit_code = None

EvalIdle ==
    /\ prev = None /\ now = None /\ sig = None /\ last_time = 0 /\ now_utc = 0
    /\ is_fresh = None /\ epc = "idle"

PickIdle == raw_columns = <<>> /\ picked = None /\ ppc = "idle"

RowsIdle == frame_rows = <<>> /\ series = None /\ pair = None /\ npc = "idle"

(***************************************************************************)
(* SpecEval: generate_signal and last_bar_is_fresh on drawn inputs.        *)
(***************************************************************************)
\* Trend-line values: 100.00, 101.00, 102.00.
EmaVals == {10000, 10100, 10200}
\* Oscillator values around RSI_SELL_MAX and RSI_BUY_MIN.
RsiVals == {4000, 4499, 4500, 4501, 5000, 5499, 5500, 5501, 6000}
\* Momentum line and signal: differences of 0, 0.01, 0.02, 0.03 and more,
\* of either sign.
MacdVals == {-40, -3, -2, -1, 0, 1, 2, 3, 50}
MacdSignalVals == {-10, 0, 20}
\* Clock minus bar time, in seconds: around 0 and around the window's end.
AgeVals == {-300, -1, 0, 1, 239, 240, 241, 600}

PrevBars == [ema_fast : EmaVals, ema_slow : EmaVals]

\* add_indicators: macd_hist = macd - macd_signal.
NowBars ==
    {[ema_fast |-> f, ema_slow |-> s, rsi |-> r, macd |-> m, macd_signal |-> g,
      macd_hist |-> m - g] :
        f \in EmaVals, s \in EmaVals, r \in RsiVals, m \in MacdVals,
        g \in MacdSignalVals}

EvalInit ==
    /\ RunIdle /\ PickIdle /\ RowsIdle
    /\ prev \in PrevBars
    /\ now \in NowBars
    /\ last_time \in {0, BarSeconds}
    /\ now_utc \in {last_time + d : d \in AgeVals}
    /\ sig = None /\ is_fresh = None
    /\ epc = "signal"

GenerateSignal ==
    /\ epc = "signal"
    /\ sig' = generate_signal(prev, now)
    /\ epc' = "fresh"
    /\ UNCHANGED <<prev, now, last_time, now_utc, is_fresh>>
    /\ UNCHANGED <<runVars, pickVars, rowsVars>>

LastBarIsFresh ==
    /\ epc = "fresh"
    /\ is_fresh' = last_bar_is_fresh(now_utc, last_time)
    /\ epc' = "done"
    /\ UNCHANGED <<prev, now, last_time, now_utc, sig>>
    /\ UNCHANGED <<runVars, pickVars, rowsVars>>

EvalNext == GenerateSignal \/ LastBarIsFresh

SpecEval == EvalInit /\ [][EvalNext]_vars

(***************************************************************************)
(* The bar source: what yf.download and Ticker.history can answer.         *)
(***************************************************************************)
\* The symbols of INSTRUMENTS: the configured pair and the commented-out
\* silver future.
Symbols == <<"GC=F", "XAUUSD=X", "SI=F">>

SymChars(sym) ==
    CASE sym = "GC=F" -> <<"G","C","=","F">>
      [] sym = "XAUUSD=X" -> <<"X","A","U","U","S","D","=","X">>
      [] sym = "SI=F" -> <<"S","I","=","F">>

L_Datetime == <<"D","a","t","e","t","i","m","e">>
L_Open == <<"O","p","e","n">>
L_High == <<"H","i","g","h">>
L_Low == <<"L","o","w">>
L_Close == <<"C","l","o","s","e">>
L_AdjClose == <<"A","d","j"," ","C","l","o","s","e">>
L_Volume == <<"V","o","l","u","m","e">>

\* The column labels a frame of the source can carry, each a tuple of levels.
FlatColumns == <<<<L_Open>>, <<L_High>>, <<L_Low>>, <<L_Close>>, <<L_AdjClose>>,
                 <<L_Volume>>>>
\* yf.download(group_by="column", auto_adjust=False): (price, ticker) labels.
PriceColumns(sym) ==
    <<<<L_AdjClose, SymChars(sym)>>, <<L_Close, SymChars(sym)>>,
      <<L_High, SymChars(sym)>>, <<L_Low, SymChars(sym)>>,
      <<L_Open, SymChars(sym)>>, <<L_Volume, SymChars(sym)>>>>
NoVolumeColumns == <<<<L_Open>>, <<L_High>>, <<L_Low>>, <<L_Close>>>>
BrokenColumns == <<<<L_Close>>, <<L_Volume>>>>

Shapes == {"flat", "price", "no volume", "broken"}

SourceColumns(shape, sym) ==
    CASE shape = "flat" -> FlatColumns
      [] shape = "price" -> PriceColumns(sym)
      [] shape = "no volume" -> NoVolumeColumns
      [] shape = "broken" -> BrokenColumns

\* A row of a source frame: the symbol and the method it was fetched with,
\* its time, and whether its price cells are missing (NaN).
SourceRow(sym, via, t, nan) == [sym |-> sym, via |-> via, time |-> t, nan |-> nan]

\* The frames of the run: 1..MaxRows rows, one bar apart, any of them NaN.
SourceRows(sym, via) ==
    UNION {{[i \in 1..n |-> SourceRow(sym, via, i * BarSeconds, i \in holes)] :
                holes \in SUBSET (1..n)} : n \in 1..MaxRows}

\* _flatten(df).reset_index(): the index becomes the first column.
ResetIndex(raw) == <<L_Datetime>> \o _flatten(raw)

(***************************************************************************)
(* fetch_df's normalisation of one frame.                                  *)
(***************************************************************************)
\* The first of open, high, low, close that _pick cannot resolve, None when
\* all four resolve.
MissingKey(cols) ==
    IF _pick(cols, K_open) = 0 THEN "open"
    ELSE IF _pick(cols, K_high) = 0 THEN "high"
    ELSE IF _pick(cols, K_low) = 0 THEN "low"
    ELSE IF _pick(cols, K_close) = 0 THEN "close"
    ELSE None

\* The volume column: the source's, or zeros when _pick raises KeyError.
VolumeOf(cols) == IF _pick(cols, K_volume) = 0 THEN "zeros" ELSE "source"

\* Lines 93-117 on each frame the source can answer with: the columns after
\* _flatten and reset_index, the key that cannot be resolved, the volume.
Resolved ==
    [shape \in Shapes, sym \in {Symbols[i] : i \in DOMAIN Symbols} |->
        LET cols == ResetIndex(SourceColumns(shape, sym)) IN
        [missing |-> MissingKey(cols), volume |-> VolumeOf(cols)]]

\* out.dropna(): the rows with a missing cell go, the order stays.
DropNa(rows) == SelectSeq(rows, LAMBDA r : ~r.nan)

\* out.tail(BARS) when len(out) > BARS.
TailBars(rows) ==
    IF Len(rows) > BARS THEN SubSeq(rows, Len(rows) - BARS + 1, Len(rows))
    ELSE rows

Normalize(rows) == TailBars(DropNa(rows))

\* The series tagged with the group's first candidate.
AttrsSymbolFirst(cands, i) == cands[1]

\* out.attrs["symbol"] = sym
AttrsSymbol(cands, i) == cands[i]

\* prev and now taken the other way round.
LastTwoSwapped(df) == [prev |-> df[Len(df)], now |-> df[Len(df) - 1]]

\* Line 175: prev, now = df.iloc[-2], df.iloc[-1]
LastTwo(df) == [prev |-> df[Len(df) - 1], now |-> df[Len(df)]]

\* add_indicators' dropna: the leading rows without a full indicator set go.
AddIndicators(rows) ==
    IF Len(rows) > WarmUp THEN SubSeq(rows, WarmUp + 1, Len(rows)) ELSE <<>>

(***************************************************************************)
(* Exceptions.                                                             *)
(***************************************************************************)
NoError == [cls |-> "None", msg |-> "None"]

Error(cls, msg) == [cls |-> cls, msg |-> msg]

\* The classes the run can raise, each with its base classes.
Bases(cls) ==
    CASE cls = "RuntimeError" -> {"Exception"}
      [] cls = "KeyError" -> {"Exception"}
      [] cls = "RequestException" -> {"Exception"}
      [] cls = "Timeout" -> {"RequestException"}
      [] cls = "ConnectionError" -> {"RequestException"}
      [] cls = "HTTPError" -> {"RequestException"}
      [] cls = "ReadTimeout" -> {"Timeout"}
      [] cls = "ConnectTimeout" -> {"ConnectionError", "Timeout"}
      [] OTHER -> {}

RECURSIVE IsSubclass(_, _)
IsSubclass(cls, base) ==
    cls = base \/ \E b \in Bases(cls) : IsSubclass(b, base)

\* main without its try/except.
MainHandlesNothing(e) == FALSE

\* main: except Exception
MainHandles(e) == IsSubclass(e.cls, "Exception")

\* send_tg: except requests.Timeout
TgHandlesTimeout(e) == IsSubclass(e.cls, "Timeout")

\* send_tg without its second handler.
TgHandlesNoRequest(e) == FALSE

\* send_tg: except requests.RequestException
TgHandlesRequest(e) == IsSubclass(e.cls, "RequestException")

(***************************************************************************)
(* Printed lines.                                                          *)
(***************************************************************************)
FetchLine(sym, e) == [line |-> "fetch", sym |-> sym, err |-> e]
RunLine(group, e) == [line |-> "run", group |-> group, err |-> e]
ReportLine(sym, stale, sd) == [line |-> "report", sym |-> sym, stale |-> stale, side |-> sd]
TgTimeoutLine == [line |-> "Telegram timeout"]
TgErrorLine(e) == [line |-> "Telegram error", err |-> e]

(***************************************************************************)
(* Spec: the run.                                                          *)
(***************************************************************************)
\* The ways to cut a candidate sequence into groups.
RECURSIVE Splits(_)
Splits(s) ==
    IF s = <<>> THEN {<<>>}
    ELSE UNION {{<<SubSeq(s, 1, k)>> \o r : r \in Splits(SubSeq(s, k + 1, Len(s)))} :
                    k \in 1..Len(s)}

\* The INSTRUMENTS lists of the run: the symbols, or the first ones of them,
\* cut into up to MaxGroups groups; and a group without candidates.
InstrumentLists ==
    {l \in UNION {Splits(SubSeq(Symbols, 1, n)) : n \in 0..Len(Symbols)} :
        Len(l) <= MaxGroups}
    \cup {<<<<>>>>}

Init ==
    /\ EvalIdle /\ PickIdle /\ RowsIdle
    /\ instruments \in InstrumentLists
    /\ secrets \in BOOLEAN
    /\ pc = "start"
    /\ gi = 0 /\ ci = 0
    /\ last_err = NoError /\ reqs = <<>> /\ failed = <<>>
    /\ out = None /\ run_sym = None /\ side = None /\ age = None /\ tg = None
    /\ stdout = <<>> /\ sent = <<>> /\ results = <<>> /\ exit_code = None

\* Lines 36-39: without the two secrets the process exits 1 before main.
Startup ==
    /\ pc = "start"
    /\ IF secrets
       THEN pc' = "main" /\ gi' = 1 /\ exit_code' = exit_code
       ELSE pc' = "exited" /\ gi' = gi /\ exit_code' = 1
    /\ UNCHANGED <<instruments, secrets, ci, last_err, reqs, failed, out, run_sym,
                   side, age, tg, stdout, sent, results>>
    /\ UNCHANGED <<evalVars, pickVars, rowsVars>>

\* main's for loop: the next group's run_for begins with fetch_df, or the
\* loop is over and the process ends.
MainLoop ==
    /\ pc = "main"
    /\ IF gi <= Len(instruments)
       THEN /\ pc' = "fetch"
            /\ results' = Append(results, [group |-> instruments[gi], status |-> "running"])
            /\ ci' = 1 /\ last_err' = NoError /\ reqs' = <<>> /\ failed' = <<>>
            /\ out' = None /\ run_sym' = None /\ side' = None /\ age' = None
            /\ tg' = None
            /\ exit_code' = exit_code
       ELSE /\ pc' = "exited"
            /\ exit_code' = 0
            /\ UNCHANGED <<results, ci, last_err, reqs, failed, out, run_sym, side,
                           age, tg>>
    /\ UNCHANGED <<instruments, secrets, gi, stdout, sent>>
    /\ UNCHANGED <<evalVars, pickVars, rowsVars>>

\* An exception leaves run_for: main's except prints it and the loop goes on;
\* what main does not handle ends the process with a traceback.
RaiseToMain(e, printed) ==
    /\ results' = [results EXCEPT ![gi].status = "raised"]
    /\ out' = None
    /\ IF MainHandles(e)
       THEN /\ stdout' = Append(printed, RunLine(instruments[gi], e))
            /\ pc' = "main" /\ gi' = gi + 1 /\ exit_code' = exit_code
       ELSE /\ stdout' = printed
            /\ pc' = "exited" /\ gi' = gi /\ exit_code' = 1

\* run_for returns; its series is gone with it.
ReturnToMain ==
    /\ results' = [results EXCEPT ![gi].status = "returned"]
    /\ out' = None
    /\ pc' = "main" /\ gi' = gi + 1 /\ exit_code' = exit_code

\* last_err set once, by the first failure.
KeepFirstErr(old, e) == IF old.cls = "None" THEN e ELSE old

\* Line 139: last_err = e
KeepLastErr(old, e) == e

\* Lines 138-140: the candidate is given up: last_err, the diagnostic line,
\* and on to the next candidate.
FetchFails(sym, e, made) ==
    /\ last_err' = KeepLastErr(last_err, e)
    /\ stdout' = Append(stdout, FetchLine(sym, e))
    /\ failed' = Append(failed, sym)
    /\ reqs' = reqs \o made
    /\ ci' = ci + 1
    /\ UNCHANGED <<pc, out, gi, results, exit_code>>

\* Lines 113-136: the frame is normalised, tagged and returned to run_for.
FetchReturns(volume, rows, made) ==
    /\ out' = [symbol |-> AttrsSymbol(instruments[gi], ci),
               rows |-> Normalize(rows),
               volume |-> volume]
    /\ reqs' = reqs \o made
    /\ pc' = "evaluate"
    /\ UNCHANGED <<last_err, stdout, failed, ci, gi, results, exit_code>>

Download(sym) == [sym |-> sym, method |-> "download"]
History(sym) == [sym |-> sym, method |-> "history"]

\* What a request to the bar source can do: raise, answer nothing, answer a
\* frame.
Answers == {"raise", "empty", "frame"}

\* Lines 83-140: one pass of fetch_df's loop, for candidate ci.
FetchCandidate ==
    /\ pc = "fetch"
    /\ ci <= Len(instruments[gi])
    /\ LET sym == instruments[gi][ci] IN
       \E dl \in Answers :
          CASE dl = "raise" ->
                 FetchFails(sym, Error("Exception", "network"), <<Download(sym)>>)
            [] dl = "empty" ->
                 FetchFails(sym, Error("RuntimeError", "empty"), <<Download(sym)>>)
            [] dl = "frame" ->
                 \E shape \in Shapes :
                    LET df0 == Resolved[shape, sym] IN
                    IF df0.missing = None
                    THEN \E rows \in SourceRows(sym, "download") :
                            FetchReturns(df0.volume, rows, <<Download(sym)>>)
                    ELSE \* except KeyError: tkr.history()
                         \E h \in Answers :
                            CASE h = "raise" ->
                                   FetchFails(sym, Error("Exception", "network"),
                                              <<Download(sym), History(sym)>>)
                              [] h = "empty" ->
                                   FetchFails(sym, Error("RuntimeError", "history empty"),
                                              <<Download(sym), History(sym)>>)
                              [] h = "frame" ->
                                   \E hshape \in Shapes :
                                      LET dfh == Resolved[hshape, sym] IN
                                      IF dfh.missing = None
                                      THEN \E rows \in SourceRows(sym, "history") :
                                              FetchReturns(dfh.volume, rows,
                                                           <<Download(sym), History(sym)>>)
                                      ELSE FetchFails(sym,
                                                      Error("KeyError", dfh.missing),
                                                      <<Download(sym), History(sym)>>)
    /\ UNCHANGED <<instruments, secrets, run_sym, side, age, tg, sent>>
    /\ UNCHANGED <<evalVars, pickVars, rowsVars>>

\* Line 142: every candidate has failed.
AllFailed(e) == [cls |-> "RuntimeError", msg |-> "all candidates failed", last |-> e]

\* Line 142, and main's except: the aggregate error leaves fetch_df and
\* run_for.
FetchAllFailed ==
    /\ pc = "fetch"
    /\ ci > Len(instruments[gi])
    /\ RaiseToMain(AllFailed(last_err), stdout)
    /\ UNCHANGED <<instruments, secrets, ci, last_err, reqs, failed, run_sym,
                   side, age, tg, sent>>
    /\ UNCHANGED <<evalVars, pickVars, rowsVars>>

\* The (prev, now) pairs of the run's augmented series: a crossover-up that
\* passes the buy filter, a crossover-down that passes the sell filter, a
\* crossover-up with rsi 50, and fast above slow on both bars.
Bar(f, s, r, m, g) ==
    [ema_fast |-> f, ema_slow |-> s, rsi |-> r, macd |-> m, macd_signal |-> g,
     macd_hist |-> m - g]

SignalInputs ==
    {[prev |-> Bar(10000, 10100, 5000, 0, 0), now |-> Bar(10200, 10100, 6000, 50, 20)],
     [prev |-> Bar(10100, 10000, 5000, 0, 0), now |-> Bar(9900, 10000, 4000, -40, -10)],
     [prev |-> Bar(10000, 10100, 5000, 0, 0), now |-> Bar(10200, 10100, 5000, 50, 20)],
     [prev |-> Bar(10200, 10100, 6000, 50, 20), now |-> Bar(10200, 10100, 6000, 50, 20)]}

\* Clock minus the latest bar's time, in seconds.
RunAges == {-1, 0, 240, 241, 600}

\* What requests.post and raise_for_status can do: a 2xx response, a
\* timeout, a connection error, a 4xx/5xx response (which raise_for_status
\* turns into HTTPError).
TgOutcomes == {"ok", "ConnectTimeout", "ReadTimeout", "ConnectionError", "HTTPError"}

\* Lines 45-56 and 195: send_tg posts the message and handles what the post
\* raises; run_for returns after it. `printed` is stdout as run_for left it.
send_tg(msg, printed) ==
    \E o \in TgOutcomes :
       /\ tg' = o
       /\ sent' = Append(sent, msg)
       /\ IF o = "ok"
          THEN stdout' = printed /\ ReturnToMain
          ELSE LET e == Error(o, "post") IN
               IF TgHandlesTimeout(e)
               THEN stdout' = Append(printed, TgTimeoutLine) /\ ReturnToMain
               ELSE IF TgHandlesRequest(e)
               THEN stdout' = Append(printed, TgErrorLine(e)) /\ ReturnToMain
               ELSE RaiseToMain(e, printed)

\* Line 187: side in ("BUY", "SELL")
Notifiable(sd) == sd \in {"BUY", "SELL"}

\* Lines 173-195: run_for once fetch_df has returned: add_indicators,
\* generate_signal, the freshness gate, the report line and the notification.
Evaluate ==
    /\ pc = "evaluate"
    /\ LET df == AddIndicators(out.rows) IN
       IF Len(df) < 2
       THEN /\ ReturnToMain
            /\ UNCHANGED <<run_sym, side, age, tg, stdout, sent>>
       ELSE \E in \in SignalInputs, a \in RunAges :
               LET t == LastTwo(df).now.time
                   clock == t + a
                   sd == generate_signal(in.prev, in.now)
               IN  /\ run_sym' = out.symbol
                   /\ side' = sd
                   /\ age' = AgeSeconds(clock, t)
                   /\ IF ~last_bar_is_fresh(clock, t)
                      THEN /\ stdout' = Append(stdout, ReportLine(out.symbol, TRUE, sd))
                           /\ ReturnToMain
                           /\ UNCHANGED <<tg, sent>>
                      ELSE LET printed == Append(stdout, ReportLine(out.symbol, FALSE, sd))
                           IN  IF Notifiable(sd)
                               THEN send_tg([sym |-> out.symbol, side |-> sd], printed)
                               ELSE /\ stdout' = printed
                                    /\ ReturnToMain
                                    /\ UNCHANGED <<tg, sent>>
    /\ UNCHANGED <<instruments, secrets, ci, last_err, reqs, failed>>
    /\ UNCHANGED <<evalVars, pickVars, rowsVars>>

Next == Startup \/ MainLoop \/ FetchCandidate \/ FetchAllFailed \/ Evaluate

Spec == Init /\ [][Next]_vars

(***************************************************************************)
(* SpecPick: _flatten and _pick on drawn column labels.                    *)
(***************************************************************************)
Keys == {"open", "high", "low", "close", "volume"}

KeyChars(key) ==
    CASE key = "open" -> K_open
      [] key = "high" -> K_high
      [] key = "low" -> K_low
      [] key = "close" -> K_close
      [] key = "volume" -> K_volume

FieldLabels == {L_Open, L_High, L_Low, L_Close, L_AdjClose, L_Volume}

\* The labels the drawn frames choose from: each field name plain, in lower
\* case, and in a two-level label with the ticker second or first.
ColumnPool ==
    UNION {{<<f>>, <<Lower(f)>>, <<f, SymChars("GC=F")>>, <<SymChars("GC=F"), f>>} :
              f \in FieldLabels}

\* The frames: 1..MaxCols different columns in any order.
ColumnLists ==
    UNION {{c \in [1..n -> ColumnPool] : \A i, j \in 1..n : i # j => c[i] # c[j]} :
              n \in 1..MaxCols}

PickInit ==
    /\ RunIdle /\ EvalIdle /\ RowsIdle
    /\ raw_columns \in ColumnLists
    /\ picked = None
    /\ ppc = "pick"

\* Lines 93-117: _flatten, reset_index, and _pick for each of the five keys.
Pick ==
    /\ ppc = "pick"
    /\ picked' = [key \in Keys |-> _pick(ResetIndex(raw_columns), KeyChars(key))]
    /\ ppc' = "done"
    /\ UNCHANGED raw_columns
    /\ UNCHANGED <<runVars, evalVars, rowsVars>>

PickNext == Pick

SpecPick == PickInit /\ [][PickNext]_vars

(***************************************************************************)
(* SpecRows: a frame's rows through fetch_df and run_for.                  *)
(***************************************************************************)
\* The frames: 1..MaxRows rows whose times are any of MaxRows bar times, in
\* any order, any of them NaN.
FrameRows ==
    UNION {[1..n -> {SourceRow("GC=F", "download", i * BarSeconds, nan) :
                        i \in 1..MaxRows, nan \in BOOLEAN}] : n \in 1..MaxRows}

RowsInit ==
    /\ RunIdle /\ EvalIdle /\ PickIdle
    /\ frame_rows \in FrameRows
    /\ series = None /\ pair = None
    /\ npc = "fetch_df"

\* Lines 119-136: fetch_df builds the series from the frame.
FetchRows ==
    /\ npc = "fetch_df"
    /\ series' = Normalize(frame_rows)
    /\ npc' = "run_for"
    /\ UNCHANGED <<frame_rows, pair>>
    /\ UNCHANGED <<runVars, evalVars, pickVars>>

\* Lines 173-175: run_for takes the last two augmented bars, when there are
\* two.
TakePair ==
    /\ npc = "run_for"
    /\ LET df == AddIndicators(series) IN
       IF Len(df) < 2
       THEN pair' = pair /\ npc' = "skipped"
       ELSE pair' = LastTwo(df) /\ npc' = "evaluated"
    /\ UNCHANGED <<frame_rows, series>>
    /\ UNCHANGED <<runVars, evalVars, pickVars>>

RowsNext == FetchRows \/ TakePair

SpecRows == RowsInit /\ [][RowsNext]_vars

(***************************************************************************)
(* Properties of generate_signal and last_bar_is_fresh (SpecEval).         *)
(***************************************************************************)
CrossoverUp == prev.ema_fast <= prev.ema_slow /\ now.ema_fast > now.ema_slow
CrossoverDown == prev.ema_fast >= prev.ema_slow /\ now.ema_fast < now.ema_slow
BuyFilter == now.rsi >= 5500 /\ now.macd_hist >= 2 /\ now.macd > now.macd_signal
SellFilter == now.rsi <= 4500 /\ now.macd_hist <= -2 /\ now.macd < now.macd_signal

SellFirst(p, n) ==
    IF cross_dn(p, n) /\ sell_ok(n) THEN "SELL"
    ELSE IF cross_up(p, n) /\ buy_ok(n) THEN "BUY"
    ELSE "WAIT"

\* C8: crossover-up and crossover-down are never both true, so the BUY and
\* the SELL condition never hold together and the result is one of BUY, SELL,
\* WAIT whichever condition is tested first; a tie on the previous bar starts
\* the crossover the current bar points to, a tie on the current bar starts
\* neither.
C8_Exclusive ==
    /\ ~(cross_up(prev, now) /\ cross_dn(prev, now))
    /\ ~((cross_up(prev, now) /\ buy_ok(now)) /\ (cross_dn(prev, now) /\ sell_ok(now)))
    /\ epc # "signal" => sig \in {"BUY", "SELL", "WAIT"} /\ sig = SellFirst(prev, now)
    /\ prev.ema_fast = prev.ema_slow =>
          /\ now.ema_fast > now.ema_slow => cross_up(prev, now)
          /\ now.ema_fast < now.ema_slow => cross_dn(prev, now)
    /\ now.ema_fast = now.ema_slow => ~cross_up(prev, now) /\ ~cross_dn(prev, now)

\* A tie on the previous bar that started a crossover-down and gave SELL.
C8_Witness ==
    /\ epc # "signal"
    /\ prev.ema_fast = prev.ema_slow
    /\ cross_dn(prev, now)
    /\ sig = "SELL"

\* C6: last_bar_is_fresh is true exactly when the age of the latest bar lies
\* in [0, freshness window]: an age of exactly the window (4 min, 240 s) is
\* fresh, one second more is not, a negative age is not.
C6_FreshInterval ==
    epc = "done" =>
        LET a == now_utc - last_time IN
        /\ is_fresh <=> (0 <= a /\ a <= 4 * 60)
        /\ a = 240 => is_fresh
        /\ a = 241 => ~is_fresh
        /\ a < 0 => ~is_fresh

\* The latest bar is exactly as old as the window, and fresh.
C6_Witness == epc = "done" /\ now_utc - last_time = 240 /\ is_fresh = TRUE

(***************************************************************************)
(* Properties of the run (Spec).                                           *)
(***************************************************************************)
\* The group run_for was last called with, and how that call stands.
LastRun == results[Len(results)]
LastLine == stdout[Len(stdout)]

\* The age lies in [0, 4 min].
AgeIsFresh == 0 <= age /\ age <= 240

\* The report lines of fresh BUY and SELL bars, as the messages they lead to.
RECURSIVE Notified(_)
Notified(lines) ==
    IF lines = <<>> THEN <<>>
    ELSE LET l == lines[1] IN
         IF l.line = "report" /\ ~l.stale /\ l.side \in {"BUY", "SELL"}
         THEN <<[sym |-> l.sym, side |-> l.side]>> \o Notified(Tail(lines))
         ELSE Notified(Tail(lines))

\* C2: a notification is sent only when the latest bar is fresh and the
\* classification is BUY or SELL; for a stale bar the report line with the
\* stale marker and the classification is printed and no notification is
\* sent, whatever the classification.
C2_NotifyOnlyFresh ==
    /\ sent = Notified(stdout)
    /\ tg # None => side \in {"BUY", "SELL"} /\ AgeIsFresh
    /\ (side # None /\ ~AgeIsFresh) =>
          /\ tg = None
          /\ LastLine = ReportLine(run_sym, TRUE, side)

\* A BUY on a bar ten minutes old: reported as stale, nothing sent.
C2_Witness ==
    /\ side = "BUY" /\ age = 600
    /\ LastLine.line = "report" /\ LastLine.stale
    /\ sent = <<>>

\* The groups whose run_for raised, in the order of the calls.
RECURSIVE Raised(_)
Raised(rs) ==
    IF rs = <<>> THEN <<>>
    ELSE IF rs[1].status = "raised" THEN <<rs[1].group>> \o Raised(Tail(rs))
    ELSE Raised(Tail(rs))

\* The groups the "[run] ... error" lines name, in the order printed.
RECURSIVE RunErrors(_)
RunErrors(lines) ==
    IF lines = <<>> THEN <<>>
    ELSE IF lines[1].line = "run" THEN <<lines[1].group>> \o RunErrors(Tail(lines))
    ELSE RunErrors(Tail(lines))

\* C3: whichever groups fail, every group is evaluated once, in list order,
\* each failing group's error is caught and logged, and the run ends with
\* exit status 0 when the secrets were present.
C3_EveryGroupEvaluated ==
    /\ Len(results) <= Len(instruments)
    /\ \A i \in DOMAIN results : results[i].group = instruments[i]
    /\ RunErrors(stdout) = Raised(results)
    /\ ~secrets => results = <<>>
    /\ (pc = "exited" /\ secrets) =>
          /\ exit_code = 0
          /\ Len(results) = Len(instruments)
          /\ \A i \in DOMAIN results : results[i].status \in {"returned", "raised"}

\* Two groups, the first failed, the second evaluated, exit status 0.
C3_Witness ==
    /\ pc = "exited" /\ exit_code = 0
    /\ Len(results) = 2
    /\ results[1].status = "raised"
    /\ results[2].status = "returned"
    /\ Len(stdout) > Len(results[1].group) + 1

\* The index of symbol c in the candidate list.
IndexOf(cands, c) == CHOOSE k \in DOMAIN cands : cands[k] = c

\* C4: fetch_df returns at the first candidate that succeeds: the series is
\* tagged with that candidate's symbol, holds only rows fetched for it, the
\* candidates before it have failed in list order, and no candidate after it
\* has been requested.
C4_FirstSuccessWins ==
    pc = "evaluate" =>
        LET cands == LastRun.group IN
        /\ \E k \in DOMAIN cands : out.symbol = cands[k]
        /\ LET k == IndexOf(cands, out.symbol) IN
           /\ failed = SubSeq(cands, 1, k - 1)
           /\ \A i \in DOMAIN out.rows : out.rows[i].sym = cands[k]
           /\ \A i \in DOMAIN reqs :
                 /\ \E j \in 1..k : reqs[i].sym = cands[j]
                 /\ \A h \in 1..(i - 1) :
                       IndexOf(cands, reqs[h].sym) <= IndexOf(cands, reqs[i].sym)
           /\ \E i \in DOMAIN reqs : reqs[i].sym = cands[k]

\* The first candidate failed, the second gave the series, a third was left.
C4_Witness ==
    /\ pc = "evaluate"
    /\ Len(LastRun.group) = 3
    /\ failed = <<LastRun.group[1]>>
    /\ out.symbol = LastRun.group[2]
    /\ out.rows # <<>>

\* How many requests of the call went to symbol c by method m.
Requested(c, m) ==
    Cardinality({i \in DOMAIN reqs : reqs[i] = [sym |-> c, method |-> m]})

\* How many diagnostic lines name symbol c.
Diagnosed(c) ==
    Cardinality({i \in DOMAIN stdout : stdout[i].line = "fetch" /\ stdout[i].sym = c})

\* C5: fetch_df fails only when every candidate has failed: the aggregate
\* error carries the failure of the last candidate tried, one diagnostic line
\* (symbol and reason) has been printed for each failed candidate, and each
\* candidate has been requested at most once by either method.
C5_AggregateFailure ==
    /\ pc = "fetch" =>
          /\ failed = SubSeq(LastRun.group, 1, ci - 1)
          /\ \A i \in DOMAIN failed : Diagnosed(failed[i]) = 1
    /\ (results # <<>> /\ LastRun.status = "raised") =>
          LET cands == LastRun.group
              n == Len(cands)
              m == Len(stdout)
          IN  /\ failed = cands
              /\ m >= n + 1
              /\ \A i \in 1..n :
                    /\ stdout[m - n - 1 + i].line = "fetch"
                    /\ stdout[m - n - 1 + i].sym = cands[i]
                    /\ Diagnosed(cands[i]) = 1
              /\ LastLine.line = "run"
              /\ LastLine.err.msg = "all candidates failed"
              /\ n >= 1 => LastLine.err.last = stdout[m - 1].err
    /\ \A i \in DOMAIN reqs :
          /\ \E j \in DOMAIN LastRun.group : reqs[i].sym = LastRun.group[j]
          /\ Requested(reqs[i].sym, reqs[i].method) = 1

\* Two candidates failed for different reasons, the second after both
\* methods were tried, and the aggregate error was raised.
C5_Witness ==
    /\ results # <<>> /\ LastRun.status = "raised"
    /\ Len(LastRun.group) = 2
    /\ stdout[Len(stdout) - 1].err # stdout[Len(stdout) - 2].err
    /\ Requested(LastRun.group[2], "history") = 1

\* C7: a failure of the delivery in send_tg (an error raised while sending,
\* a non-success response) is caught and logged inside send_tg and does not
\* reach run_for: the group's run ends as it does when the delivery succeeds.
C7_DeliveryFailureContained ==
    tg # None =>
        /\ LastRun.status = "returned"
        /\ pc \in {"main", "exited"}
        /\ pc = "exited" => exit_code = 0
        /\ tg = "ok" => LastLine = ReportLine(run_sym, FALSE, side)
        /\ tg # "ok" =>
              /\ LastLine.line \in {"Telegram timeout", "Telegram error"}
              /\ stdout[Len(stdout) - 1] = ReportLine(run_sym, FALSE, side)

\* The channel answered with a non-success status; the run returned.
C7_Witness ==
    /\ tg = "HTTPError"
    /\ LastRun.status = "returned"
    /\ LastLine.line = "Telegram error"

(***************************************************************************)
(* Properties of _pick (SpecPick).                                         *)
(***************************************************************************)
\* The label is a variant of the field name `key`: the name itself in any
\* case, or the name with the source's symbol before or after it.
IsVariant(label, key) ==
    LET l == Lower(label)
        src == Lower(SymChars("GC=F"))
    IN  \/ l = KeyChars(key)
        \/ l = src \o <<"_">> \o KeyChars(key)
        \/ l = KeyChars(key) \o <<"_">> \o src

\* C9: whatever other columns the frame has, a mixed-case, source-prefixed
\* or source-suffixed variant of open/high/low/close/volume resolves to the
\* canonical field of the plain name: _pick returns a column that is a
\* variant of the key whenever the frame has one.
C9_VariantsResolve ==
    ppc = "done" =>
        LET cols == ResetIndex(raw_columns) IN
        \A key \in Keys :
            (\E i \in DOMAIN cols : IsVariant(cols[i], key)) =>
                /\ picked[key] # 0
                /\ IsVariant(cols[picked[key]], key)

(***************************************************************************)
(* Properties of the series' rows (SpecRows).                              *)
(***************************************************************************)
\* Time strictly increases along the rows: in order, no timestamp twice.
StrictlyIncreasing(rows) ==
    \A i \in 1..(Len(rows) - 1) : rows[i].time < rows[i + 1].time

\* C10 as stated: whatever rows the source supplies, the returned series has
\* strictly increasing time without duplicates, and the two rows handed to
\* generate_signal are two distinct bars in time order.
C10_AlwaysIncreasing ==
    /\ npc # "fetch_df" => StrictlyIncreasing(series)
    /\ npc = "evaluated" => pair.prev.time < pair.now.time

\* C10: when the source's rows come with strictly increasing time, the
\* returned series has strictly increasing time without duplicates, and the
\* two rows handed to generate_signal are two distinct bars in time order.
C10_IncreasingWhenSourceIs ==
    StrictlyIncreasing(frame_rows) =>
        /\ npc # "fetch_df" => StrictlyIncreasing(series)
        /\ npc = "evaluated" => pair.prev.time < pair.now.time

\* A frame in time order that lost a row on the way, and gave a pair.
C10_Witness ==
    /\ npc = "evaluated"
    /\ StrictlyIncreasing(frame_rows)
    /\ Len(series) < Len(frame_rows)
    /\ pair.prev.time < pair.now.time

====
